---- MODULE Spec2Model ----
(***************************************************************************)
(* Model of qastor (pasqal-io/github-bot): the startup of main (secrets    *)
(* blob, QASTOR_HOOK* variables, config.yml) and the per-project pipeline  *)
(* per_project (secret lookup, fetch, pending-review filter,               *)
(* de-duplication, message construction, delivery to every hook).          *)
(*                                                                         *)
(* A string is a sequence of atoms; an atom stands for a piece of text     *)
(* that contains no '=' unless it is the atom "=" itself.  A Url is the    *)
(* sequence of atoms of its serialisation (url::Url compares by it).       *)
(***************************************************************************)
EXTENDS Integers, Sequences, FiniteSets, TLC

\* ------------------------------------------------------------------ bounds
\* longest process environment (number of variables)
MaxEnv == 2
\* longest list of issues the API returns
MaxIssues == 2
\* longest list of open pull requests the API returns
MaxPulls == 2
\* identifiers of issues and pull requests are 1..MaxId
MaxId == 2
\* longest path (in atoms) of a project url of config.yml
MaxPath == 5

\* ------------------------------------------------------------------ text
GH  == "https://github.com"
GHU == "HTTPS://GITHUB.COM"
HK  == "https://hooks.example"
MT  == "mailto:"

Repo1  == <<GH, "/", "o", "/", "r">>
Repo1U == <<GHU, "/", "o", "/", "r">>
Repo2  == <<GH, "/", "o", "/", "q">>
Repo3  == <<GH, "/", "o", "/", "s">>
HookA  == <<HK, "/", "a">>
HookB  == <<HK, "/", "b">>
Junk   == <<"junk">>

\* Option<T> and Result<T, E>
None    == [some |-> FALSE]
Some(v) == [some |-> TRUE, val |-> v]
Ok(v)  == [ok |-> TRUE, val |-> v]
Err(e) == [ok |-> FALSE, err |-> e]

\* Url::parse: an absolute URL starts with a scheme and a host; scheme and
\* host are lower-cased and an empty path becomes "/".  The rest is kept
\* (every text of the model has "/" right after its scheme and host).
\* "mailto:" is a scheme without a host: its path is opaque (the texts of
\* the model have no "/" right after it) and an empty path stays empty.
SchemeHost == [x \in {GH, GHU, HK, MT} |-> IF x = GHU THEN GH ELSE x]

UrlParse(s) ==
    IF s = <<>> \/ s[1] \notin DOMAIN SchemeHost
    THEN Err("invalid url")
    ELSE IF Len(s) = 1 /\ s[1] # MT
         THEN Ok(<<SchemeHost[s[1]], "/">>)
         ELSE Ok(<<SchemeHost[s[1]]>> \o Tail(s))

\* The regex "(.*)=(.*)": both groups are greedy, so the first group runs to
\* the last '=' of the text.  None when the text holds no '='.
RECURSIVE LastEq(_, _)
LastEq(s, i) ==
    IF i = 0 THEN 0
    ELSE IF s[i] = "=" THEN i
    ELSE LastEq(s, i - 1)

Captures(s) ==
    LET i == LastEq(s, Len(s))
    IN  IF i = 0 THEN None
        ELSE Some(<<SubSeq(s, 1, i - 1), SubSeq(s, i + 1, Len(s))>>)

\* key.starts_with("QASTOR_HOOK")
StartsWithHook(key) == key # <<>> /\ key[1] = "QASTOR_HOOK"

\* ------------------------------------------------------------------ store
\* HashMap<Url, Vec<SlackHook>>: a function from the keys present.
EmptyMap == [u \in {} |-> <<>>]

Get_EmptyIsNone(m, u) ==
    IF u \in DOMAIN m /\ m[u] # <<>> THEN Some(m[u]) ELSE None

Get(m, u) == IF u \in DOMAIN m THEN Some(m[u]) ELSE None

Insert(m, u, v) == [k \in DOMAIN m \cup {u} |-> IF k = u THEN v ELSE m[k]]

\* secrets.repo_to_hook.entry(repo).or_default().push(SlackHook(hook))
EntryPush_Replace(m, u, h) == Insert(m, u, <<h>>)

EntryPush(m, u, h) ==
    Insert(m, u, Append(IF u \in DOMAIN m THEN m[u] ELSE <<>>, h))

\* Vec<SlackHook> of one member of the blob: every text must parse.
RECURSIVE ParseHooks(_)
ParseHooks(ts) ==
    IF ts = <<>> THEN Ok(<<>>)
    ELSE LET h == UrlParse(Head(ts))
             r == ParseHooks(Tail(ts))
         IN  IF ~h.ok THEN h
             ELSE IF ~r.ok THEN r
             ELSE Ok(<<h.val>> \o r.val)

\* serde_json::from_str::<Secrets>: the members of the JSON object, in
\* order, inserted in the map; a later member replaces an equal key.
RECURSIVE FromStr(_, _)
FromStr(members, acc) ==
    IF members = <<>> THEN Ok(acc)
    ELSE LET k == UrlParse(Head(members)[1])
             v == ParseHooks(Head(members)[2])
         IN  IF ~k.ok \/ ~v.ok THEN Err("Invalid env QASTOR_SECRETS")
             ELSE FromStr(Tail(members), Insert(acc, k.val, v.val))

\* ----------------------------------------------------------------- config
\* Url::path_segments: the path after its leading "/", split at every "/".
RECURSIVE SplitPath(_, _)
SplitPath(path, cur) ==
    IF path = <<>> THEN <<cur>>
    ELSE IF Head(path) = "/" THEN <<cur>> \o SplitPath(Tail(path), <<>>)
    ELSE SplitPath(Tail(path), Append(cur, Head(path)))

PathSegments(url) ==
    IF Len(url) < 2 \/ url[2] # "/" THEN None
    ELSE Some(SplitPath(SubSeq(url, 3, Len(url)), <<>>))

\* Project::deserialize
ProjectDeserialize(text) ==
    LET u == UrlParse(text)
    IN  IF ~u.ok THEN Err("invalid url")
        ELSE LET segments == PathSegments(u.val)
             IN  IF ~segments.some THEN Err("missing path")
                 ELSE IF Len(segments.val) < 1 THEN Err("missing owner")
                 ELSE IF Len(segments.val) < 2 THEN Err("missing project")
                 ELSE Ok([url   |-> u.val,
                          owner |-> segments.val[1],
                          repo  |-> segments.val[2]])

\* serde_yaml::from_reader::<Config>, the projects of the document
RECURSIVE FromReader(_)
FromReader(texts) ==
    IF texts = <<>> THEN Ok(<<>>)
    ELSE LET p == ProjectDeserialize(Head(texts))
             r == FromReader(Tail(texts))
         IN  IF ~p.ok THEN p
             ELSE IF ~r.ok THEN r
             ELSE Ok(<<p.val>> \o r.val)

\* ----------------------------------------------------------------- inputs
\* sequences over S of length at most n
SeqsUpTo(S, n) == UNION {[1..k -> S] : k \in 0..n}

\* values of QASTOR_SECRETS: unset, or the members of a JSON object
Blobs ==
    { None,
      Some(<< <<Repo1, <<HookA>>>> >>),
      Some(<< <<Repo1, <<HookA, HookB>>>>, <<Repo2, <<>>>> >>),
      Some(<< <<Repo1U, <<HookB>>>>, <<Repo1, <<HookA>>>> >>),
      Some(<< <<Repo1, <<Junk>>>> >>) }

EnvKeys == { <<"QASTOR_HOOK">>, <<"QASTOR_HOOK", "_1">>, <<"PATH">> }

EnvValues ==
    { Repo1 \o <<"=">> \o HookA,
      Repo1 \o <<"=">> \o HookB,
      Repo1U \o <<"=">> \o HookB,
      Repo2 \o <<"=">> \o HookA,
      Repo1 \o <<"=">> \o HookA \o <<"=">> \o HookB,
      Repo1 \o <<"=">> \o Junk \o <<"=">> \o HookA,
      Repo1 \o HookA,
      Junk \o <<"=">> \o HookA,
      Repo1 \o <<"=">> \o Junk,
      <<"=">> }

EnvVars == [key : EnvKeys, value : EnvValues]

\* url texts of a project of config.yml: a scheme (and host) followed by a
\* path of at most MaxPath atoms; "/" starts the path of an https url and
\* does not start the opaque path of a mailto url.
PathAtoms == {"/", "o", "r"}

ProjectTexts ==
    {Junk} \cup
    {t \in {<<h>> \o p : h \in {GH, GHU, MT}, p \in SeqsUpTo(PathAtoms, MaxPath)} :
        Len(t) > 1 => ((t[1] = MT) <=> (t[2] # "/"))}

\* ------------------------------------------------------------------ state
VARIABLES
    env_secrets,    \* the value of QASTOR_SECRETS
    env,            \* std::env::vars(), a sequence of [key, value]
    config_yml,     \* the content of config.yml
    pc,             \* position in main / per_project
    envIdx,         \* next variable of env the merge loop reads
    secrets,        \* Secrets.repo_to_hook
    blob,           \* the store as loaded from QASTOR_SECRETS
    projects,       \* Config.projects
    logged,         \* the last line the last step logged ("" = nothing)
    idx,            \* the project of config.projects the loop of main is at
    invoked,        \* the project urls per_project was called with, in order
    warned,         \* the project urls the loop of main logged an error for
    result,         \* what the last call of per_project returned
    slack_hooks,    \* per_project: the hooks of the project
    calls,          \* per_project: the API requests made by this call
    issues,         \* per_project: the issues the API returned
    requests,       \* per_project: the open pull requests the API returned
    pending_requests, \* per_project: HashMap id -> pull request
    pending_issues, \* per_project: the issues left after de-duplication
    pr_msg,         \* per_project: the slack::Section about the pull requests
    issue_msg,      \* per_project: the slack::Section about the issues
    hookIdx,        \* per_project: position of the loop over slack_hooks
    sent            \* per_project: the sends of this call, [kind, hook, ok]

inputVars == <<env_secrets, env, config_yml>>
mainVars  == <<idx, invoked, warned, result>>
callVars  == <<slack_hooks, calls, issues, requests, pending_requests,
               pending_issues, pr_msg, issue_msg, hookIdx, sent>>
vars == <<env_secrets, env, config_yml, pc, envIdx, secrets, blob, projects,
          logged, idx, invoked, warned, result, slack_hooks, calls, issues,
          requests, pending_requests, pending_issues, pr_msg, issue_msg,
          hookIdx, sent>>

\* main, lines 266-268
LoadSecrets ==
    /\ pc = "load_secrets"
    /\ LET r == FromStr(IF env_secrets.some THEN env_secrets.val ELSE <<>>,
                        EmptyMap)
       IN  IF r.ok
           THEN /\ secrets' = r.val
                /\ blob' = r.val
                /\ pc' = "merge_env"
           ELSE /\ UNCHANGED <<secrets, blob>>
                /\ pc' = "exit_err"
    /\ logged' = ""
    /\ UNCHANGED <<inputVars, envIdx, projects, mainVars, callVars>>

\* ProjectToHook::from_env_var, and lines 274-294 of main
FromEnvVar(source) ==
    LET captures == Captures(source)
    IN  IF ~captures.some THEN Err("invalid env variable")
        ELSE LET project == UrlParse(captures.val[1])
                 hook    == UrlParse(captures.val[2])
             IN  IF ~project.ok THEN Err("invalid repo url")
                 ELSE IF ~hook.ok THEN Err("invalid hook url")
                 ELSE Ok([project |-> project.val, hook |-> hook.val])

\* the store after one iteration of the loop over std::env::vars()
MergeDiscrete_EntryFirst(store, var) ==
    IF ~StartsWithHook(var.key) THEN store
    ELSE LET r == FromEnvVar(var.value)
             c == Captures(var.value)
         IN  IF r.ok THEN EntryPush(store, r.val.project, r.val.hook)
             ELSE IF c.some /\ UrlParse(c.val[1]).ok
                     /\ UrlParse(c.val[1]).val \notin DOMAIN store
             THEN Insert(store, UrlParse(c.val[1]).val, <<>>)
             ELSE store

MergeDiscrete(store, var) ==
    IF ~StartsWithHook(var.key) THEN store
    ELSE LET r == FromEnvVar(var.value)
         IN  IF r.ok THEN EntryPush(store, r.val.project, r.val.hook)
             ELSE store

\* main, lines 272-299: one iteration
MergeEnvVar ==
    /\ pc = "merge_env"
    /\ envIdx <= Len(env)
    /\ secrets' = MergeDiscrete(secrets, env[envIdx])
    /\ logged' = IF StartsWithHook(env[envIdx].key)
                    /\ ~FromEnvVar(env[envIdx].value).ok
                 THEN FromEnvVar(env[envIdx].value).err
                 ELSE ""
    /\ envIdx' = envIdx + 1
    /\ UNCHANGED <<inputVars, pc, blob, projects, mainVars, callVars>>

\* main, lines 303-304; the error main returns is what the process prints
LoadConfig ==
    /\ pc = "merge_env"
    /\ envIdx > Len(env)
    /\ LET r == IF config_yml.some THEN FromReader(config_yml.val)
                ELSE Err("Could not open config.yml")
       IN  IF r.ok
           THEN /\ projects' = r.val
                /\ pc' = "loop"
                /\ logged' = ""
           ELSE /\ UNCHANGED projects
                /\ pc' = "exit_err"
                /\ logged' = r.err
    /\ UNCHANGED <<inputVars, envIdx, secrets, blob, mainVars, callVars>>

\* --------------------------------------------------------------- pipeline
\* the records of the API
\* html_url and title are read only of a pull request with reviewers
\* (line 180 drops the others first), so only those vary in them.
Pulls ==
    [id : 1..MaxId, requested_reviewers : {None, Some(<<>>)},
     html_url : {Some("url")}, title : {Some("title")}]
    \cup
    [id : 1..MaxId, requested_reviewers : {Some(<<"alice">>)},
     html_url : {None, Some("url")}, title : {None, Some("title")}]

Issues == [id : 1..MaxId]

NoMsg == [title |-> "", rows |-> <<>>]

\* lines 178-184: the pull requests with a pending review, by id; a later
\* pull request replaces an earlier one of the same id.
IsPending_NoEmptyTest(pr) == pr.requested_reviewers.some

IsPending(pr) ==
    pr.requested_reviewers.some /\ pr.requested_reviewers.val # <<>>

RECURSIVE CollectPending(_, _)
CollectPending(prs, acc) ==
    IF prs = <<>> THEN acc
    ELSE CollectPending(Tail(prs),
                        IF IsPending(Head(prs))
                        THEN Insert(acc, Head(prs).id, Head(prs))
                        ELSE acc)

\* line 192
NothingToReport_Never(left, pending) == FALSE

NothingToReport(left, pending) == left = <<>> /\ DOMAIN pending = {}

\* lines 188-190
KeepIssue_All(pending, issue) == TRUE

KeepIssue(pending, issue) == issue.id \notin DOMAIN pending

RECURSIVE Reverse(_)
Reverse(q) == IF q = <<>> THEN <<>> ELSE Append(Reverse(Tail(q)), Head(q))

FilterIssues_Reversed(list, pending) ==
    Reverse(SelectSeq(list, LAMBDA issue : KeepIssue(pending, issue)))

FilterIssues(list, pending) ==
    SelectSeq(list, LAMBDA issue : KeepIssue(pending, issue))

\* HashMap::into_values yields the values in an order the hasher decides:
\* any order of the keys.
Orders(S) ==
    {o \in [1..Cardinality(S) -> S] : \A i, j \in DOMAIN o : i # j => o[i] # o[j]}

\* lines 204-224: one row per pull request that has a url and a title
RECURSIVE PullRows_KeepAll(_, _)
PullRows_KeepAll(pending, order) ==
    IF order = <<>> THEN <<>>
    ELSE LET pull == pending[Head(order)]
             rest == PullRows_KeepAll(pending, Tail(order))
         IN  <<[id     |-> pull.id,
                link   |-> <<IF pull.html_url.some THEN pull.html_url.val ELSE "",
                             IF pull.title.some THEN pull.title.val ELSE "">>,
                second |-> pull.requested_reviewers.val]>> \o rest

RECURSIVE PullRows(_, _)
PullRows(pending, order) ==
    IF order = <<>> THEN <<>>
    ELSE LET pull == pending[Head(order)]
             rest == PullRows(pending, Tail(order))
         IN  IF ~pull.html_url.some \/ ~pull.title.some THEN rest
             ELSE <<[id     |-> pull.id,
                     link   |-> <<pull.html_url.val, pull.title.val>>,
                     second |-> pull.requested_reviewers.val]>> \o rest

\* lines 209-218: what the loop logs for a pull request it skips; the url
\* is tested first
SkipLine(pull) ==
    IF ~pull.html_url.some THEN "PR missing a URL, skipping"
    ELSE IF ~pull.title.some THEN "PR missing a title, skipping"
    ELSE ""

\* the last line the loop of lines 204-224 logs
RECURSIVE LastSkipLine(_, _)
LastSkipLine(pending, order) ==
    IF order = <<>> THEN ""
    ELSE LET rest == LastSkipLine(pending, Tail(order))
         IN  IF rest # "" THEN rest ELSE SkipLine(pending[Head(order)])

\* lines 239-248: one row per issue
RECURSIVE IssueRows(_)
IssueRows(list) ==
    IF list = <<>> THEN <<>>
    ELSE <<[id     |-> Head(list).id,
            link   |-> <<"url", "title">>,
            second |-> <<"updater">>]>> \o IssueRows(Tail(list))

\* the return of per_project to the loop of main, lines 310-315; the
\* locals of the call are dropped.  line is what per_project logged last.
Return_Abort(r, line) ==
    /\ result' = r
    /\ warned' = IF r.ok THEN warned ELSE Append(warned, projects[idx].url)
    /\ logged' = IF r.ok THEN line ELSE "Error handling project"
    /\ idx' = IF r.ok THEN idx + 1 ELSE Len(projects) + 1
    /\ pc' = "loop"
    /\ slack_hooks' = <<>>
    /\ issues' = <<>>
    /\ requests' = <<>>
    /\ pending_requests' = EmptyMap
    /\ pending_issues' = <<>>
    /\ pr_msg' = NoMsg
    /\ issue_msg' = NoMsg
    /\ hookIdx' = 1

Return(r, line) ==
    /\ result' = r
    /\ warned' = IF r.ok THEN warned ELSE Append(warned, projects[idx].url)
    /\ logged' = IF r.ok THEN line ELSE "Error handling project"
    /\ idx' = idx + 1
    /\ pc' = "loop"
    /\ slack_hooks' = <<>>
    /\ issues' = <<>>
    /\ requests' = <<>>
    /\ pending_requests' = EmptyMap
    /\ pending_issues' = <<>>
    /\ pr_msg' = NoMsg
    /\ issue_msg' = NoMsg
    /\ hookIdx' = 1

\* per_project, lines 147-174: the lookup of the hooks and the two requests
PerProject ==
    /\ pc = "loop"
    /\ idx <= Len(projects)
    /\ invoked' = Append(invoked, projects[idx].url)
    /\ sent' = <<>>
    /\ LET hooks == Get(secrets, projects[idx].url)
       IN  IF ~hooks.some
           THEN /\ calls' = <<>>
                /\ Return(Err("Missing secret"), "")
           ELSE \/ /\ calls' = <<"issues">>
                   /\ Return(Err("Couldn't download recent issues"), "")
                \/ /\ calls' = <<"issues", "pulls">>
                   /\ Return(Err("Couldn't download open pull requests"), "")
                \/ /\ calls' = <<"issues", "pulls">>
                   /\ slack_hooks' = hooks.val
                   /\ issues' \in SeqsUpTo(Issues, MaxIssues)
                   /\ requests' \in SeqsUpTo(Pulls, MaxPulls)
                   /\ pc' = "filter"
                   /\ logged' = ""
                   /\ UNCHANGED <<idx, warned, result, pending_requests,
                                  pending_issues, pr_msg, issue_msg, hookIdx>>
    /\ UNCHANGED <<inputVars, envIdx, secrets, blob, projects>>

\* per_project, lines 176-224: the pending requests, the issues left, the
\* early return and the message about the pull requests
Filter ==
    /\ pc = "filter"
    /\ LET pending == CollectPending(requests, EmptyMap)
           left    == FilterIssues(issues, pending)
       IN  IF NothingToReport(left, pending)
           THEN Return(Ok("done"), "No issues to report")
           ELSE /\ pending_requests' = pending
                /\ pending_issues' = left
                /\ IF DOMAIN pending # {}
                   THEN /\ \E order \in Orders(DOMAIN pending) :
                             /\ pr_msg' = [title |-> "PRs waiting for reviews",
                                           rows  |-> PullRows(pending, order)]
                             /\ logged' = LastSkipLine(pending, order)
                        /\ pc' = "send_pr"
                   ELSE /\ pr_msg' = NoMsg
                        /\ logged' = ""
                        /\ pc' = "issues"
                /\ UNCHANGED <<idx, warned, result, slack_hooks, issues,
                               requests, issue_msg, hookIdx>>
    /\ UNCHANGED <<inputVars, envIdx, secrets, blob, projects, invoked,
                   calls, sent>>

\* slack::Section::send to one hook, and the '?' after it: lines 226-228
\* and 250-252
Send_KeepGoing(kind) ==
    \E ok \in BOOLEAN :
       /\ sent' = Append(sent, [kind |-> kind, hook |-> slack_hooks[hookIdx],
                                ok |-> ok])
       /\ hookIdx' = hookIdx + 1
       /\ logged' = ""
       /\ UNCHANGED <<pc, idx, warned, result, slack_hooks, issues,
                      requests, pending_requests, pending_issues,
                      pr_msg, issue_msg>>

Send(kind) ==
    \E ok \in BOOLEAN :
       /\ sent' = Append(sent, [kind |-> kind, hook |-> slack_hooks[hookIdx],
                                ok |-> ok])
       /\ IF ok
          THEN /\ hookIdx' = hookIdx + 1
               /\ logged' = ""
               /\ UNCHANGED <<pc, idx, warned, result, slack_hooks, issues,
                              requests, pending_requests, pending_issues,
                              pr_msg, issue_msg>>
          ELSE Return(Err("Failed to post udpdate on Slack"), "")

\* lines 225-229: one iteration of the loop over slack_hooks
SendPR ==
    /\ pc = "send_pr"
    /\ hookIdx <= Len(slack_hooks)
    /\ Send("pr")
    /\ UNCHANGED <<inputVars, envIdx, secrets, blob, projects, invoked, calls>>

\* lines 229-231: the loop over slack_hooks is over
EndSendPR ==
    /\ pc = "send_pr"
    /\ hookIdx > Len(slack_hooks)
    /\ pc' = "issues"
    /\ logged' = ""
    /\ UNCHANGED <<inputVars, envIdx, secrets, blob, projects, mainVars,
                   callVars>>

\* lines 231-248: the message about the issues, or the return of line 255
BuildIssues ==
    /\ pc = "issues"
    /\ IF pending_issues # <<>>
       THEN /\ issue_msg' = [title |-> "Issues updated since",
                             rows  |-> IssueRows(pending_issues)]
            /\ hookIdx' = 1
            /\ pc' = "send_issues"
            /\ logged' = ""
            /\ UNCHANGED <<idx, warned, result, slack_hooks, issues, requests,
                           pending_requests, pending_issues, pr_msg>>
       ELSE Return(Ok("done"), "")
    /\ UNCHANGED <<inputVars, envIdx, secrets, blob, projects, invoked,
                   calls, sent>>

\* lines 249-253: one iteration of the loop over slack_hooks
SendIssues ==
    /\ pc = "send_issues"
    /\ hookIdx <= Len(slack_hooks)
    /\ Send("issues")
    /\ UNCHANGED <<inputVars, envIdx, secrets, blob, projects, invoked, calls>>

\* lines 253-255: the loop is over, per_project returns Ok
EndSendIssues ==
    /\ pc = "send_issues"
    /\ hookIdx > Len(slack_hooks)
    /\ Return(Ok("done"), "")
    /\ UNCHANGED <<inputVars, envIdx, secrets, blob, projects, invoked,
                   calls, sent>>

\* main, lines 316-318
Done ==
    /\ pc = "loop"
    /\ idx > Len(projects)
    /\ pc' = "exit_ok"
    /\ logged' = ""
    /\ UNCHANGED <<inputVars, envIdx, secrets, blob, projects, mainVars,
                   callVars>>

\* ---------------------------------------------------------- specifications
InitCommon ==
    /\ pc = "load_secrets"
    /\ envIdx = 1
    /\ secrets = EmptyMap
    /\ blob = EmptyMap
    /\ projects = <<>>
    /\ logged = ""
    /\ idx = 1
    /\ invoked = <<>>
    /\ warned = <<>>
    /\ result = Ok("none")
    /\ slack_hooks = <<>>
    /\ calls = <<>>
    /\ issues = <<>>
    /\ requests = <<>>
    /\ pending_requests = EmptyMap
    /\ pending_issues = <<>>
    /\ pr_msg = NoMsg
    /\ issue_msg = NoMsg
    /\ hookIdx = 1
    /\ sent = <<>>

\* the runs of the whole-program specification: QASTOR_SECRETS, the
\* environment and config.yml
Hook1 == <<"QASTOR_HOOK", "_1">>

Runs ==
    { [env_secrets |-> Some(<< <<Repo1, <<HookA>>>>, <<Repo2, <<>>>> >>),
       env         |-> <<[key |-> <<"PATH">>, value |-> Repo3 \o <<"=">> \o HookA],
                         [key |-> Hook1, value |-> Repo1 \o <<"=">> \o HookB]>>,
       config_yml  |-> Some(<<Repo1, Repo3>>)],
      [env_secrets |-> Some(<< <<Repo1, <<HookA>>>>, <<Repo2, <<>>>> >>),
       env         |-> <<>>,
       config_yml  |-> Some(<<Repo2, Repo3>>)],
      [env_secrets |-> None,
       env         |-> <<[key |-> Hook1, value |-> Repo1 \o <<"=">> \o HookA]>>,
       config_yml  |-> Some(<<Repo3, Repo1U>>)],
      [env_secrets |-> Some(<< <<Repo1, <<Junk>>>> >>),
       env         |-> <<>>,
       config_yml  |-> Some(<<Repo1>>)],
      [env_secrets |-> None,
       env         |-> <<[key |-> Hook1, value |-> Junk \o <<"=">> \o HookA]>>,
       config_yml  |-> None],
      [env_secrets |-> Some(<< <<Repo1, <<HookA>>>> >>),
       env         |-> <<>>,
       config_yml  |-> Some(<<Repo1, <<GH, "/", "o">>>>)],
      [env_secrets |-> Some(<< <<Repo1, <<HookA>>>> >>),
       env         |-> <<>>,
       config_yml  |-> Some(<<>>)] }

Init ==
    /\ \E run \in Runs :
         /\ env_secrets = run.env_secrets
         /\ env = run.env
         /\ config_yml = run.config_yml
    /\ InitCommon

Startup == LoadSecrets \/ MergeEnvVar \/ LoadConfig

Next ==
    \/ Startup
    \/ PerProject
    \/ Filter
    \/ SendPR
    \/ EndSendPR
    \/ BuildIssues
    \/ SendIssues
    \/ EndSendIssues
    \/ Done

Spec == Init /\ [][Next]_vars

\* The startup alone, over every environment of at most MaxEnv variables.
InitSecrets ==
    /\ env_secrets \in Blobs
    /\ env \in SeqsUpTo(EnvVars, MaxEnv)
    /\ config_yml \in {None, Some(<<>>)}
    /\ InitCommon

NextSecrets == LoadSecrets \/ MergeEnvVar \/ LoadConfig \/ Done

SpecSecrets == InitSecrets /\ [][NextSecrets]_vars

\* The reading of config.yml alone, over every project text: the startup,
\* then the loop of main over the project read (no secret is configured).
InitConfig ==
    /\ env_secrets = None
    /\ env = <<[key |-> <<"PATH">>, value |-> Junk]>>
    /\ config_yml \in {None, Some(<<>>)} \cup {Some(<<t>>) : t \in ProjectTexts}
    /\ InitCommon

NextConfig == LoadSecrets \/ MergeEnvVar \/ LoadConfig \/ PerProject \/ Done

SpecConfig == InitConfig /\ [][NextConfig]_vars

\* ================================================================= claims
\* a pull request that waits for a review, as the API reports it
Awaiting(pr) ==
    pr.requested_reviewers.some /\ Len(pr.requested_reviewers.val) > 0

\* the ids of the fetched pull requests that wait for a review
AwaitingIds == {requests[k].id : k \in {j \in DOMAIN requests : Awaiting(requests[j])}}

RowIds(m) == {m.rows[k].id : k \in DOMAIN m.rows}

Filtered == pc \in {"send_pr", "issues", "send_issues"}

\* C1: no identifier is shown both in the message about the issues and in
\* the message about the pull requests: an issue whose id is the id of a
\* pull request waiting for a review is in neither the pending issues nor
\* the rows of the issues message.
C1_NoIdInBothMessages ==
    /\ RowIds(issue_msg) \cap RowIds(pr_msg) = {}
    /\ Filtered =>
         /\ \A j \in DOMAIN pending_issues : pending_issues[j].id \notin AwaitingIds
         /\ RowIds(issue_msg) \cap AwaitingIds = {}

C1_Witness ==
    /\ pc = "send_issues"
    /\ pr_msg.rows # <<>>
    /\ issue_msg.rows # <<>>
    /\ \E j \in DOMAIN issues : issues[j].id \in AwaitingIds

\* C2 as stated: a pull request without reviewers shows in neither message,
\* also when an issue of the fetched list has its identifier.
C2_Original ==
    \A k \in DOMAIN requests :
        ~Awaiting(requests[k]) =>
            /\ \A r \in DOMAIN pr_msg.rows :
                  ~(pr_msg.rows[r].id = requests[k].id
                    /\ Some(pr_msg.rows[r].second) = requests[k].requested_reviewers)
            /\ requests[k].id \notin RowIds(issue_msg)

\* C2 amended: a pull request without reviewers never makes a row of the
\* message about pull requests (every row has a non-empty reviewer list and
\* the id of a fetched pull request that waits for a review), and it removes
\* no issue: a fetched issue with its identifier is a row of the issues
\* message unless a pull request waiting for a review has that identifier.
C2_Amended ==
    /\ \A r \in DOMAIN pr_msg.rows :
          /\ pr_msg.rows[r].second # <<>>
          /\ pr_msg.rows[r].id \in AwaitingIds
    /\ pc = "send_issues" =>
          \A j \in DOMAIN issues :
              issues[j].id \notin AwaitingIds => issues[j].id \in RowIds(issue_msg)

C2_Witness ==
    /\ pc = "send_issues"
    /\ pr_msg.rows # <<>>
    /\ \E k \in DOMAIN requests :
          /\ ~Awaiting(requests[k])
          /\ \E j \in DOMAIN issues : issues[j].id = requests[k].id
          /\ requests[k].id \in RowIds(issue_msg)

\* the hooks of the project of the last call of per_project
LastHooks ==
    IF idx > 1 /\ idx - 1 <= Len(projects)
       /\ projects[idx - 1].url \in DOMAIN secrets
    THEN secrets[projects[idx - 1].url]
    ELSE <<>>

\* both lists are empty after the filter and the de-duplication: no fetched
\* pull request waits for a review and every fetched issue is removed
BothEmpty ==
    /\ AwaitingIds = {}
    /\ \A j \in DOMAIN issues : issues[j].id \in AwaitingIds

\* C3: when both lists are empty after the filter and the de-duplication,
\* per_project returns Ok at once and no send is made for the repository; a
\* send is only ever made in a call whose lists are not both empty.
C3_NoSendWhenBothEmpty ==
    [][ /\ (pc = "filter" /\ BothEmpty) =>
             (pc' = "loop" /\ result'.ok /\ sent' = <<>> /\ idx' = idx + 1)
        /\ sent' # sent /\ sent' # <<>> => ~BothEmpty ]_vars

C3_Witness ==
    /\ pc = "loop"
    /\ logged = "No issues to report"
    /\ result.ok
    /\ calls = <<"issues", "pulls">>
    /\ sent = <<>>
    /\ LastHooks # <<>>

ProjectUrls == [i \in 1..Len(projects) |-> projects[i].url]

InCall == pc \in {"filter", "send_pr", "issues", "send_issues"}

\* C4: once the startup has succeeded, per_project is called once for every
\* project of the configuration, in configuration order, whatever the
\* earlier calls returned; every error a call returns is logged by the loop;
\* the process exits with success (a failure exit is only taken from the
\* startup).
C4_EveryProjectOnce ==
    /\ [](pc = "exit_ok" => invoked = ProjectUrls)
    /\ [](pc \in {"loop", "exit_ok"} \cup {"filter", "send_pr", "issues", "send_issues"} =>
            /\ Len(invoked) = (IF InCall THEN idx ELSE idx - 1)
            /\ Len(invoked) <= Len(projects)
            /\ invoked = SubSeq(ProjectUrls, 1, Len(invoked)))
    /\ [][ (idx' = idx + 1 /\ ~result'.ok) =>
              /\ warned' = Append(warned, projects[idx].url)
              /\ logged' = "Error handling project"
              /\ pc' = "loop" ]_vars
    /\ [][ warned' # warned => (idx' = idx + 1 /\ ~result'.ok) ]_vars
    /\ [][ pc' = "exit_err" => pc \in {"load_secrets", "merge_env"} ]_vars

C4_Witness ==
    /\ pc = "exit_ok"
    /\ Len(projects) = 2
    /\ projects[1].url \in DOMAIN secrets
    /\ Len(secrets[projects[1].url]) = 2
    /\ invoked = ProjectUrls
    /\ warned = ProjectUrls

\* the kind of message whose loop over the hooks the call is in
Kind == IF pc = "send_pr" THEN "pr" ELSE "issues"

OfKind(log, kind) == SelectSeq(log, LAMBDA e : e.kind = kind)

\* C5 as stated: when per_project leaves a loop over the hooks, every hook
\* of the repository got a send attempt for that message.
C5_Original ==
    [][ (pc \in {"send_pr", "send_issues"} /\ pc' # pc) =>
           \A h \in DOMAIN slack_hooks :
               \E k \in DOMAIN sent' :
                   sent'[k].kind = Kind /\ sent'[k].hook = slack_hooks[h] ]_vars

\* what a step of a loop over the hooks leaves in the log of sends
SendStepOk ==
    pc \in {"send_pr", "send_issues"} =>
          LET mine == OfKind(sent', Kind)
          IN  /\ Len(mine) <= Len(slack_hooks)
              /\ \A k \in DOMAIN mine :
                    /\ mine[k].hook = slack_hooks[k]
                    /\ k < Len(mine) => mine[k].ok
              /\ (\E k \in DOMAIN sent' : ~sent'[k].ok) =>
                    (pc' = "loop" /\ ~result'.ok /\ idx' = idx + 1)
              /\ (pc' # pc /\ \A k \in DOMAIN sent' : sent'[k].ok) =>
                    Len(mine) = Len(slack_hooks)

\* C5 amended: the hooks get their send attempts for a message in the order
\* of the store, each only if the sends before it succeeded: the attempts
\* are a prefix of the hooks, all hooks are tried when no send fails, and a
\* failed send makes per_project return an error for the repository.
C5_Amended == [][SendStepOk]_vars

C5_Witness ==
    /\ pc = "loop"
    /\ Len(LastHooks) = 2
    /\ Len(sent) = 1
    /\ ~sent[1].ok
    /\ ~result.ok

\* C6: a failed send is the last send of the call: no later hook of the
\* same message and no send of the issues message follows it; the call has
\* returned the error and the loop of main has logged it, once.
C6_FailedSendIsLast ==
    /\ \A k \in DOMAIN sent : ~sent[k].ok => k = Len(sent)
    /\ (sent # <<>> /\ ~sent[Len(sent)].ok) =>
          /\ pc \in {"loop", "exit_ok"}
          /\ ~result.ok
          /\ result.err = "Failed to post udpdate on Slack"
          /\ warned # <<>>
          /\ warned[Len(warned)] = projects[idx - 1].url
          /\ Cardinality({k \in DOMAIN warned : warned[k] = projects[idx - 1].url}) = 1

C6_Witness ==
    /\ pc = "loop"
    /\ Len(sent) = 3
    /\ sent[1].kind = "pr" /\ sent[1].ok
    /\ sent[2].kind = "pr" /\ sent[2].ok
    /\ sent[3].kind = "issues" /\ ~sent[3].ok
    /\ ~result.ok

\* ---- the discrete entries, stated apart from the code that splits them
\* the text splits at position i: an '=' with no '=' after it
SplitsAt(text, i) ==
    /\ i \in DOMAIN text
    /\ text[i] = "="
    /\ \A j \in DOMAIN text : j > i => text[j] # "="

HasRepoHalf(text) ==
    \E i \in DOMAIN text :
        SplitsAt(text, i) /\ UrlParse(SubSeq(text, 1, i - 1)).ok

HasHookHalf(text) ==
    \E i \in DOMAIN text :
        SplitsAt(text, i) /\ UrlParse(SubSeq(text, i + 1, Len(text))).ok

WellFormed(text) == HasRepoHalf(text) /\ HasHookHalf(text)

RepoHalf(text) ==
    UrlParse(SubSeq(text, 1, (CHOOSE i \in DOMAIN text : SplitsAt(text, i)) - 1)).val

HookHalf(text) ==
    UrlParse(SubSeq(text, (CHOOSE i \in DOMAIN text : SplitsAt(text, i)) + 1,
                    Len(text))).val

\* the targets the first n variables of the environment give the repository
\* u, in the order of the environment
RECURSIVE DiscreteTargets(_, _)
DiscreteTargets(u, n) ==
    IF n = 0 THEN <<>>
    ELSE LET var == env[n]
         IN  IF StartsWithHook(var.key) /\ WellFormed(var.value)
                /\ RepoHalf(var.value) = u
             THEN Append(DiscreteTargets(u, n - 1), HookHalf(var.value))
             ELSE DiscreteTargets(u, n - 1)

BlobTargets(u) == IF u \in DOMAIN blob THEN blob[u] ELSE <<>>

Merged == pc # "load_secrets"

Malformed(text) == ~WellFormed(text)

MergeStepSkips ==
    (/\ pc = "merge_env"
     /\ envIdx <= Len(env)
     /\ StartsWithHook(env[envIdx].key)
     /\ Malformed(env[envIdx].value))
    => (/\ secrets' = secrets
        /\ logged' \in {"invalid env variable", "invalid repo url", "invalid hook url"}
        /\ envIdx' = envIdx + 1
        /\ pc' = "merge_env")

NoTargets ==
    \/ projects[idx].url \notin DOMAIN secrets
    \/ secrets[projects[idx].url] = <<>>

Calling == pc = "loop" /\ idx <= Len(projects)

MissingSecret(r) == ~r.ok /\ r.err = "Missing secret"

CallStepOk ==
    Calling =>
       /\ projects[idx].url \notin DOMAIN secrets =>
             (MissingSecret(result') /\ calls' = <<>> /\ sent' = <<>>
              /\ pc' = "loop" /\ idx' = idx + 1)
       /\ projects[idx].url \in DOMAIN secrets =>
             (calls' # <<>> /\ (pc' = "loop" => ~MissingSecret(result')))

Shown(k) ==
    /\ Awaiting(requests[k])
    /\ requests[k].html_url.some
    /\ requests[k].title.some

RowIdSeq(m) == [k \in DOMAIN m.rows |-> m.rows[k].id]

IssueIdsLeft ==
    LET left == SelectSeq(issues, LAMBDA i : i.id \notin AwaitingIds)
    IN  [k \in DOMAIN left |-> left[k].id]

\* C10 as stated: the rows of each message follow the order of the fetched
\* list: two rows of the message about the pull requests are in the order
\* of their pull requests in the fetched list.
C10_Original ==
    /\ \A a, b \in DOMAIN pr_msg.rows :
          a < b => \E p, q \in DOMAIN requests :
                      /\ p < q
                      /\ requests[p].id = pr_msg.rows[a].id
                      /\ requests[q].id = pr_msg.rows[b].id
    /\ pc = "send_issues" => RowIdSeq(issue_msg) = IssueIdsLeft

\* C10 amended: the issues message lists the issues left in the order of
\* the fetched issues; the message about the pull requests holds, in an
\* order the code does not fix, at most one row per identifier, each from a
\* fetched pull request that waits for a review, and a row for every such
\* pull request with a url and a title whose identifier is its alone.
C10_Amended ==
    /\ pc = "send_issues" => RowIdSeq(issue_msg) = IssueIdsLeft
    /\ \A a, b \in DOMAIN pr_msg.rows :
          a # b => pr_msg.rows[a].id # pr_msg.rows[b].id
    /\ \A a \in DOMAIN pr_msg.rows :
          \E k \in DOMAIN requests :
              Shown(k) /\ requests[k].id = pr_msg.rows[a].id
    /\ pc \in {"send_pr", "send_issues"} /\ pr_msg # NoMsg =>
          \A k \in DOMAIN requests :
              (Shown(k) /\ \A j \in DOMAIN requests :
                              j # k => requests[j].id # requests[k].id)
              => requests[k].id \in RowIds(pr_msg)

C10_Witness ==
    /\ pc = "send_pr"
    /\ Len(pr_msg.rows) = 2
    /\ Len(requests) = 2
    /\ pr_msg.rows[1].id = requests[2].id
    /\ pr_msg.rows[2].id = requests[1].id

\* config.yml has been read: the projects are loaded, or main has returned
\* the error of the reader
ConfigRead == pc \in {"loop", "exit_ok"} \/ (pc = "exit_err" /\ logged # "")

\* the one project text of config.yml, when it is a url
OneUrlText ==
    /\ config_yml.some
    /\ Len(config_yml.val) = 1
    /\ UrlParse(config_yml.val[1]).ok

NonEmpty(segments) == SelectSeq(segments, LAMBDA x : x # <<>>)

\* C11: a project url is accepted exactly when its path has at least two
\* non-empty segments, and then owner and repository name are the first and
\* the second segment, neither of them empty; any other url is rejected with
\* the error that names the missing piece (path, owner or project).
C11_Original ==
    ConfigRead /\ OneUrlText =>
        LET segments == PathSegments(UrlParse(config_yml.val[1]).val)
            present  == IF segments.some THEN Len(NonEmpty(segments.val)) ELSE 0
        IN  IF present >= 2
            THEN /\ pc # "exit_err"
                 /\ Len(projects) = 1
                 /\ projects[1].owner = segments.val[1]
                 /\ projects[1].repo = segments.val[2]
                 /\ projects[1].owner # <<>>
                 /\ projects[1].repo # <<>>
            ELSE /\ pc = "exit_err"
                 /\ logged = IF ~segments.some THEN "missing path"
                             ELSE IF present = 0 THEN "missing owner"
                             ELSE "missing project"

\* positions of the pending pull requests: a fetched pull request that
\* waits for a review, the last one fetched with its identifier
PendingAt(k) ==
    /\ Awaiting(requests[k])
    /\ \A j \in DOMAIN requests :
          (j > k /\ Awaiting(requests[j])) => requests[j].id # requests[k].id

Lacking(pr) == ~pr.html_url.some \/ ~pr.title.some

SomeSkipped == \E k \in DOMAIN requests : PendingAt(k) /\ Lacking(requests[k])

\* the message about the pull requests holds exactly one row for each
\* pending pull request that has a url and a title, with its url and title
RowsAreTheComplete ==
    (pc \in {"send_pr", "issues", "send_issues"} /\ pr_msg # NoMsg) =>
        /\ \A a, b \in DOMAIN pr_msg.rows :
              a # b => pr_msg.rows[a].id # pr_msg.rows[b].id
        /\ \A k \in DOMAIN requests :
              (PendingAt(k) /\ ~Lacking(requests[k])) =>
                  \E a \in DOMAIN pr_msg.rows :
                      /\ pr_msg.rows[a].id = requests[k].id
                      /\ pr_msg.rows[a].link = <<requests[k].html_url.val,
                                                 requests[k].title.val>>
        /\ \A a \in DOMAIN pr_msg.rows :
              \E k \in DOMAIN requests :
                  /\ PendingAt(k) /\ ~Lacking(requests[k])
                  /\ requests[k].id = pr_msg.rows[a].id

\* the step that builds the message: a pending pull request without url or
\* title is logged, the call goes on to the sends and returns nothing
BuildStepSkips ==
    (pc = "filter" /\ \E k \in DOMAIN requests : PendingAt(k)) =>
        /\ pc' = "send_pr"
        /\ result' = result /\ warned' = warned /\ idx' = idx
        /\ logged' = "PR missing a URL, skipping" =>
              \E k \in DOMAIN requests :
                  PendingAt(k) /\ ~requests[k].html_url.some
        /\ logged' = "PR missing a title, skipping" =>
              \E k \in DOMAIN requests :
                  /\ PendingAt(k) /\ requests[k].html_url.some
                  /\ ~requests[k].title.some
        /\ SomeSkipped <=> logged' \in {"PR missing a URL, skipping",
                                        "PR missing a title, skipping"}

\* the return of a call that built its messages: an error only for a
\* failed send; Ok after the message about the pull requests went to every
\* hook and the issues left, if any, went to every hook
ReturnStepAfterSkip ==
    (pc \in {"send_pr", "issues", "send_issues"} /\ pc' = "loop") =>
        /\ ~result'.ok <=> \E k \in DOMAIN sent' : ~sent'[k].ok
        /\ result'.ok =>
              /\ pr_msg # NoMsg =>
                    Len(OfKind(sent', "pr")) = Len(slack_hooks)
              /\ pending_issues # <<>> =>
                    Len(OfKind(sent', "issues")) = Len(slack_hooks)
        /\ warned' # warned => ~result'.ok

\* C12: a pending pull request that lacks a title or a url is logged and
\* left out of the message about the pull requests, which holds exactly one
\* row for each pending pull request that has both; the call goes on: the
\* message is sent, the issues message is sent, and per_project returns an
\* error only when a send fails, never because of the skipped record.
C12_SkippedPullIsNoError ==
    /\ []RowsAreTheComplete
    /\ [][BuildStepSkips]_vars
    /\ [][ReturnStepAfterSkip]_vars

\* a call with a skipped pull request (the only pending one) has sent the
\* message about the pull requests and is sending the issues left
C12_Witness ==
    /\ pc = "send_issues"
    /\ SomeSkipped
    /\ pr_msg # NoMsg /\ pr_msg.rows = <<>>
    /\ Len(slack_hooks) = 2
    /\ Len(OfKind(sent, "pr")) = 2
    /\ issue_msg.rows # <<>>

====
